---- MODULE Spec2Model ----
(***************************************************************************)
(* tiny-db storages (src/tiny-db/storages.cpp): the Storage interface and  *)
(* its two implementations, JSONStorage (one std::fstream over a JSON      *)
(* file) and MemoryStorage (one optional dataset held in memory).          *)
(*                                                                         *)
(* Strings (paths, access modes, file bytes) are sequences of one-char     *)
(* strings, so that find_last_of, substr, find_first_of and the byte-wise  *)
(* overwrite of the file are computed as the code computes them.           *)
(***************************************************************************)
EXTENDS Integers, Sequences, FiniteSets, TLC

\* ------------------------------------------------------------ bounds
\* JSON number values stored in a dataset are 10 - MaxVal .. 10 (one- and
\* two-digit numbers, so that serialisations differ in length).
MaxVal == 1
\* Longest sequence of MemoryStorage calls followed from construction.
MaxOps == 3

\* std::string::npos: larger than the length of every string.
Npos == 2147483647

\* ------------------------------------------------------------ strings
Min(a, b) == IF a < b THEN a ELSE b

\* std::string::substr(pos, count), for pos <= size().
Substr(s, pos, count) == SubSeq(s, pos + 1, pos + Min(count, Len(s) - pos))

\* std::string::find_last_of(chars): 0-based index of the last character of s
\* that is in chars, npos when there is none.
FindLastOf(s, chars) ==
  LET hits == {i \in 1..Len(s) : s[i] \in chars}
  IN  IF hits = {} THEN Npos
      ELSE (CHOOSE i \in hits : \A j \in hits : j <= i) - 1

\* std::string::find_first_of(chars).
FindFirstOf(s, chars) ==
  LET hits == {i \in 1..Len(s) : s[i] \in chars}
  IN  IF hits = {} THEN Npos
      ELSE (CHOOSE i \in hits : \A j \in hits : i <= j) - 1

\* ------------------------------------------------------------ datasets
\* unordered_map<string, unordered_map<string, json>>: key -> sub-key -> value.
Keys == {"a"}
SubKeys == {"x"}
\* nlohmann's object type is an ordered map: members are dumped in key order.
KeyOrder == <<"a", "b", "x", "y">>
Values == {10 - i : i \in 0..MaxVal}
InnerMaps == UNION {[S -> Values] : S \in SUBSET SubKeys}
Datasets == UNION {[K -> InnerMaps] : K \in SUBSET Keys}

\* ------------------------------------------------------------ JSON text
Spaces(n) == [i \in 1..n |-> " "]
Quoted(k) == <<"\"", k, "\"">>
Digit(d) == <<"0", "1", "2", "3", "4", "5", "6", "7", "8", "9">>[d + 1]

RECURSIVE DumpNumber(_)
DumpNumber(n) == IF n < 10 THEN <<Digit(n)>>
                 ELSE DumpNumber(n \div 10) \o <<Digit(n % 10)>>

\* The members of an object, in key order, as a sequence of keys.
RECURSIVE MemberKeys(_, _)
MemberKeys(dom, i) ==
  IF i > Len(KeyOrder) THEN <<>>
  ELSE (IF KeyOrder[i] \in dom THEN <<KeyOrder[i]>> ELSE <<>>)
       \o MemberKeys(dom, i + 1)

\* dump(4) of an object whose member values are already dumped: "{}" when it
\* is empty, else one member per line, indented by indent + 4 spaces.
RECURSIVE DumpMembers(_, _, _, _)
DumpMembers(ks, dumped, indent, i) ==
  IF i > Len(ks) THEN <<>>
  ELSE Spaces(indent + 4) \o Quoted(ks[i]) \o <<":", " ">> \o dumped[ks[i]]
       \o (IF i < Len(ks) THEN <<",">> ELSE <<>>) \o <<"\n">>
       \o DumpMembers(ks, dumped, indent, i + 1)

DumpObject(dumped, indent) ==
  IF DOMAIN dumped = {} THEN <<"{", "}">>
  ELSE <<"{", "\n">>
       \o DumpMembers(MemberKeys(DOMAIN dumped, 1), dumped, indent, 1)
       \o Spaces(indent) \o <<"}">>

\* json j = data; j.dump(4): the pretty-printed document of a dataset.
Dump(D) ==
  DumpObject([k \in DOMAIN D |->
                DumpObject([s \in DOMAIN D[k] |-> DumpNumber(D[k][s])], 4)], 0)

\* The documents of all datasets, computed once.
Documents == [D \in Datasets |-> Dump(D)]

Serialize(D) == Documents[D]

\* handle_ >> j; j.get<...>(): the dataset a text is the document of, as a set
\* of at most one dataset; {} is a ParseError (not a JSON document of the
\* two-level shape).
Parse(bytes) == {D \in Datasets : Serialize(D) = bytes}

\* ------------------------------------------------------------ filesystem
\* The names the filesystem holds besides the working directory, which always
\* exists: a bare file name, a directory, and a file inside that directory.
BareName == <<"f">>
DirName == <<"d">>
NestedName == <<"d", "/", "f">>
Nodes == {BareName, DirName, NestedName}
PathChoices == {BareName, NestedName}

NoNode == [kind |-> "none", data |-> <<>>]
DirNode == [kind |-> "dir", data |-> <<>>]
FileNode(bytes) == [kind |-> "file", data |-> bytes]

\* The directory the operating system resolves a path in: the text before the
\* last "/", or the working directory (<<>>) for a bare name.
ParentOf(p) ==
  LET cut == FindLastOf(p, {"/"})
  IN  IF cut = Npos THEN <<>> ELSE Substr(p, 0, cut)

DirExists(f, d) == d = <<>> \/ (d \in Nodes /\ f[d].kind = "dir")

\* stat(name, &info) != 0: nothing of that name exists.
StatFails(f, name) == name \notin Nodes \/ f[name].kind = "none"

\* std::system("mkdir -p " + dir): dir and its missing ancestors become
\* directories; when a name on the way is a file the command fails, and its
\* exit status is ignored.
MkdirP(f, dir) ==
  LET chain == {SubSeq(dir, 1, i - 1) : i \in {j \in 2..Len(dir) : dir[j] = "/"}}
               \cup {dir}
  IN  IF dir # <<>> /\ chain \subseteq Nodes
         /\ \A n \in chain : f[n].kind \in {"none", "dir"}
      THEN [n \in Nodes |-> IF n \in chain THEN DirNode ELSE f[n]]
      ELSE f

\* std::ofstream ofs(path, std::ios::app): creates the file empty when it is
\* absent and its directory exists, keeps its bytes when it is present, and
\* fails on a directory or in a missing directory.
AppendOpen(f, path) ==
  IF f[path].kind = "file" THEN [ok |-> TRUE, fs |-> f]
  ELSE IF f[path].kind = "none" /\ DirExists(f, ParentOf(path))
  THEN [ok |-> TRUE, fs |-> [f EXCEPT ![path] = FileNode(<<>>)]]
  ELSE [ok |-> FALSE, fs |-> f]

\* touch(path, create_dirs): [ok, fs]; ok = FALSE is the runtime_error
\* "Failed to create or open the file".
touch(f, path, create_dirs) ==
  LET base_dir == Substr(path, 0, FindLastOf(path, {"/", "\\"}))
      f1 == IF create_dirs /\ StatFails(f, base_dir) THEN MkdirP(f, base_dir)
            ELSE f
  IN  AppendOpen(f1, path)

\* ------------------------------------------------------------ std::fstream
\* handle_: whether the file buffer is open, the open mode, the stream's
\* failbit and badbit, and the file position.
ClosedHandle ==
  [open |-> FALSE, in |-> FALSE, out |-> FALSE, failbit |-> FALSE,
   badbit |-> FALSE, pos |-> 0]

Fail(h) == h.failbit \/ h.badbit
Good(h) == ~h.failbit /\ ~h.badbit

ValidModes == {<<"r">>, <<"r", "+">>, <<"r", "b">>, <<"r", "b", "+">>}
ModeChoices == ValidModes \cup {<<"x">>, <<"w">>, <<"a">>}

\* modeToOpenMode(mode), for the four modes the constructor lets through.
modeToOpenMode(mode) ==
  IF mode = <<"r">> THEN [in |-> TRUE, out |-> FALSE, binary |-> FALSE]
  ELSE IF mode = <<"r", "+">> THEN [in |-> TRUE, out |-> TRUE, binary |-> FALSE]
  ELSE IF mode = <<"r", "b">> THEN [in |-> TRUE, out |-> FALSE, binary |-> TRUE]
  ELSE [in |-> TRUE, out |-> TRUE, binary |-> TRUE]

\* handle_.open(path_, mode): fails (failbit) when the buffer is already open
\* or the path is no regular file (in, and in|out, create nothing); on
\* success the state is cleared and the position is the start of the file.
StreamOpen(h, f, path, om) ==
  IF ~h.open /\ f[path].kind = "file"
  THEN [open |-> TRUE, in |-> om.in, out |-> om.out, failbit |-> FALSE,
        badbit |-> FALSE, pos |-> 0]
  ELSE [h EXCEPT !.failbit = TRUE]

\* handle_.close(): failbit when the buffer is not open.
StreamClose(h) ==
  IF h.open
  THEN [h EXCEPT !.open = FALSE, !.in = FALSE, !.out = FALSE, !.pos = 0]
  ELSE [h EXCEPT !.failbit = TRUE]

\* handle_.seekg / seekp to an absolute offset: nothing moves when fail()
\* holds; seeking a closed buffer sets failbit.
StreamSeek(h, target) ==
  IF Fail(h) THEN [h EXCEPT !.failbit = TRUE]
  ELSE IF ~h.open THEN [h EXCEPT !.failbit = TRUE]
  ELSE [h EXCEPT !.pos = target]

\* handle_.tellg(): -1 when fail() holds.
StreamTell(h) == IF Fail(h) \/ ~h.open THEN -1 ELSE h.pos

\* Overwrite as it would be had the file been opened in append mode: the text
\* lands after the bytes already there.
OverwriteAppending(bytes, pos, s) == bytes \o s

\* Overwrite as it would be had the file been truncated at the end of the new
\* text.
OverwriteTruncating(bytes, pos, s) == SubSeq(bytes, 1, pos) \o s

\* The bytes of a file after s is written at offset pos; bytes beyond the new
\* text stay (in|out opens without truncation).
Overwrite(bytes, pos, s) ==
  SubSeq(bytes, 1, pos) \o s \o SubSeq(bytes, pos + Len(s) + 1, Len(bytes))

\* handle_ << text; handle_.flush(): [h, bytes]. A stream that is not good
\* inserts nothing (failbit); a buffer that is closed or not open for output
\* takes no character (badbit).
StreamPut(h, bytes, s) ==
  IF ~Good(h) THEN [h |-> [h EXCEPT !.failbit = TRUE], bytes |-> bytes]
  ELSE IF ~h.open \/ ~h.out THEN [h |-> [h EXCEPT !.badbit = TRUE], bytes |-> bytes]
  ELSE [h |-> [h EXCEPT !.pos = h.pos + Len(s)],
        bytes |-> Overwrite(bytes, h.pos, s)]

\* The characters the stream buffer yields from the current position to the
\* end of the file; none from a closed buffer.
StreamRest(h, bytes) ==
  IF h.open /\ h.in THEN SubSeq(bytes, h.pos + 1, Len(bytes)) ELSE <<>>

\* handle_ >> j; j.get<...>(): the JSON library reads the rest of the file
\* through the stream buffer and parses it; the stream's state bits stay as
\* they were. [val, h]; val = {} is a ParseError.
Extract(h, bytes) ==
  [val |-> Parse(StreamRest(h, bytes)),
   h |-> IF h.open /\ h.in THEN [h EXCEPT !.pos = Len(bytes)] ELSE h]

\* ------------------------------------------------------------ JSONStorage
\* JSONStorage::openFile(): [ok, h]; ok = FALSE is the runtime_error
\* "Could not open file".
openFile(h, f, path, mode) ==
  LET h1 == StreamOpen(h, f, path, modeToOpenMode(mode))
  IN  [ok |-> h1.open, h |-> h1]

\* The constructor with the mode check left to modeToOpenMode, which runs
\* after touch.
JSONStorageLateCheck(f, path, create_dirs, access_mode) ==
  LET t == IF FindFirstOf(access_mode, {"+", "w", "a"}) # Npos
           THEN touch(f, path, create_dirs)
           ELSE [ok |-> TRUE, fs |-> f]
  IN  IF ~t.ok THEN [res |-> "IOError", fs |-> t.fs, h |-> ClosedHandle]
      ELSE IF access_mode \notin ValidModes
      THEN [res |-> "InvalidArgument", fs |-> t.fs, h |-> ClosedHandle]
      ELSE LET o == openFile(ClosedHandle, t.fs, path, access_mode)
           IN  IF o.ok THEN [res |-> "ok", fs |-> t.fs, h |-> o.h]
               ELSE [res |-> "IOError", fs |-> t.fs, h |-> ClosedHandle]

\* JSONStorage::JSONStorage(path, create_dirs, access_mode): [res, fs, h].
JSONStorage(f, path, create_dirs, access_mode) ==
  IF access_mode \notin ValidModes
  THEN [res |-> "InvalidArgument", fs |-> f, h |-> ClosedHandle]
  ELSE LET t == IF FindFirstOf(access_mode, {"+", "w", "a"}) # Npos
                THEN touch(f, path, create_dirs)
                ELSE [ok |-> TRUE, fs |-> f]
           o == openFile(ClosedHandle, t.fs, path, access_mode)
       IN  IF ~t.ok THEN [res |-> "IOError", fs |-> t.fs, h |-> ClosedHandle]
           ELSE IF ~o.ok THEN [res |-> "IOError", fs |-> t.fs, h |-> ClosedHandle]
           ELSE [res |-> "ok", fs |-> t.fs, h |-> o.h]

\* read() without the size test: every file is handed to the parser.
readAlwaysParsing(h, bytes) ==
  LET e == Extract(StreamSeek(StreamSeek(h, Len(bytes)), 0), bytes)
  IN  [res |-> IF e.val = {} THEN "ParseError" ELSE "ok", val |-> e.val, h |-> e.h]

\* JSONStorage::read() over a file of the given bytes: [res, val, h]; res is
\* "absent" (nullopt), "ok" (val holds the dataset) or "ParseError".
read(h, bytes) ==
  LET h1 == StreamSeek(h, Len(bytes))
      size == StreamTell(h1)
  IN  IF size = 0 THEN [res |-> "absent", val |-> {}, h |-> h1]
      ELSE LET e == Extract(StreamSeek(h1, 0), bytes)
           IN  [res |-> IF e.val = {} THEN "ParseError" ELSE "ok",
                val |-> e.val, h |-> e.h]

\* JSONStorage::write(data): [res, h, fs]; res is "ok" (returned) or
\* "IOError" (a runtime_error was thrown).
write(h, f, path, mode, data) ==
  LET p == StreamPut(StreamSeek(h, 0), f[path].data, Serialize(data))
  IN  IF p.h.badbit THEN [res |-> "IOError", h |-> p.h, fs |-> f]
      ELSE LET f2 == [f EXCEPT ![path].data = p.bytes]
               o == openFile(StreamClose(p.h), f2, path, mode)
           IN  [res |-> IF o.ok THEN "ok" ELSE "IOError", h |-> o.h, fs |-> f2]

\* close() without the is_open() test.
closeUnguarded(h) == StreamClose(h)

\* JSONStorage::close().
close(h) == IF h.open THEN StreamClose(h) ELSE h

\* ------------------------------------------------------------ MemoryStorage
\* MemoryStorage::read(): the optional memory_, as a set of at most one dataset.
MemoryStorage_read(memory) == memory

\* write() that only fills an empty memory_.
MemoryStorage_writeOnce(memory, data) == IF memory = {} THEN {data} ELSE memory

\* MemoryStorage::write(data): the new memory_.
MemoryStorage_write(memory, data) == {data}

\* Storage::close(), which MemoryStorage inherits: does nothing.
Storage_close(memory) == memory

\* ------------------------------------------------------------ state
VARIABLES
  fs,        \* the filesystem: [Nodes -> node]
  obj,       \* the JSONStorage object: "none", "live", "failed", "destroyed"
  path_,     \* JSONStorage::path_
  mode_,     \* JSONStorage::mode_
  handle_,   \* JSONStorage::handle_
  memory_,   \* MemoryStorage::memory_
  fs0,       \* history: the filesystem before construction
  dirs_,     \* history: the constructor's create_dirs argument
  closed,    \* history: close() or the destructor has run on the object
  written,   \* history: write() has been called on the object
  last,      \* history: the most recent JSONStorage call and its outcome
  prev,      \* history: the call before it
  memHist    \* history: the MemoryStorage calls made so far

vars == <<fs, obj, path_, mode_, handle_, memory_, fs0, dirs_, closed, written,
          last, prev, memHist>>

jsonVars == <<fs, obj, path_, mode_, handle_, fs0, dirs_, closed, written, last,
              prev>>
memVars == <<memory_, memHist>>

\* A call record: the operation, its dataset argument, its outcome, the
\* dataset it returned, whether the handle was open (and open for output)
\* before the call, and the file's bytes before the call.
NoCall ==
  [op |-> "none", arg |-> {}, res |-> "ok", val |-> {}, open |-> FALSE,
   out |-> FALSE, pre |-> <<>>]

Call(op, arg, res, val, h, pre) ==
  [op |-> op, arg |-> arg, res |-> res, val |-> val, open |-> h.open,
   out |-> h.open /\ h.out, pre |-> pre]

\* What is kept of the call before the last one: the operation, its argument
\* and outcome, whether it was a write through an open read-write handle
\* (rw), whether that write was at least as long as the file it found (fits),
\* and whether it directly followed a longer write that went through (shrink).
NoPrev ==
  [op |-> "none", arg |-> {}, res |-> "ok", rw |-> FALSE, fits |-> FALSE,
   shrink |-> FALSE]

Summary(c, s) ==
  [op |-> c.op, arg |-> c.arg, res |-> c.res, rw |-> c.op = "write" /\ c.out,
   fits |-> /\ c.op = "write"
            /\ \A d \in c.arg : Len(Serialize(d)) >= Len(c.pre),
   shrink |-> s]

\* The bytes of the file the handle was built on.
Bytes == fs[path_].data

\* File contents present before the program starts: an empty file, or a
\* document written by an earlier run.
InitContents == {<<>>, Serialize([a |-> [x |-> 9]])}

InitFs ==
  {f \in [Nodes -> {NoNode, DirNode} \cup {FileNode(c) : c \in InitContents}] :
     /\ f[DirName].kind # "file"
     /\ f[BareName].kind # "dir"
     /\ f[NestedName].kind # "dir"
     /\ f[NestedName].kind = "file" => f[DirName].kind = "dir"}

Init ==
  /\ fs \in InitFs
  /\ fs0 = fs
  /\ obj = "none"
  /\ path_ = <<>>
  /\ mode_ = <<>>
  /\ dirs_ = FALSE
  /\ handle_ = ClosedHandle
  /\ closed = FALSE
  /\ written = FALSE
  /\ last = NoCall
  /\ prev = NoPrev
  /\ memory_ = {}
  /\ memHist = <<>>

\* The last call is a write through an open read-write handle, and so is the
\* call before it, whose document is strictly longer.
Shrinks ==
  /\ last.op = "write" /\ last.out /\ last.res = "ok"
  /\ prev.op = "write" /\ prev.rw /\ prev.res = "ok"
  /\ \A b \in last.arg : \A a \in prev.arg :
       Len(Serialize(b)) < Len(Serialize(a))

\* ------------------------------------------------------------ actions
Construct ==
  \E path \in PathChoices, create_dirs \in BOOLEAN, access_mode \in ModeChoices :
    LET r == JSONStorage(fs, path, create_dirs, access_mode)
    IN  /\ obj = "none"
        /\ path_' = path
        /\ mode_' = access_mode
        /\ dirs_' = create_dirs
        /\ fs' = r.fs
        /\ handle_' = r.h
        /\ obj' = IF r.res = "ok" THEN "live" ELSE "failed"
        /\ last' = Call("ctor", {}, r.res, {}, handle_, <<>>)
        /\ prev' = Summary(last, FALSE)
        /\ UNCHANGED <<fs0, closed, written, memVars>>

Read ==
  LET r == read(handle_, Bytes)
  IN  /\ obj = "live"
      /\ handle_' = r.h
      /\ last' = Call("read", {}, r.res, r.val, handle_, Bytes)
      /\ prev' = Summary(last, Shrinks)
      /\ UNCHANGED <<fs, obj, path_, mode_, fs0, dirs_, closed, written, memVars>>

Write ==
  \E data \in Datasets :
    LET r == write(handle_, fs, path_, mode_, data)
    IN  /\ obj = "live"
        /\ handle_' = r.h
        /\ fs' = r.fs
        /\ last' = Call("write", {data}, r.res, {}, handle_, Bytes)
        /\ prev' = Summary(last, Shrinks)
        /\ written' = TRUE
        /\ UNCHANGED <<obj, path_, mode_, fs0, dirs_, closed, memVars>>

Close ==
  /\ obj = "live"
  /\ handle_' = close(handle_)
  /\ closed' = TRUE
  /\ last' = Call("close", {}, "ok", {}, handle_, Bytes)
  /\ prev' = Summary(last, Shrinks)
  /\ UNCHANGED <<fs, obj, path_, mode_, fs0, dirs_, written, memVars>>

\* ~JSONStorage(): close(), and the object is gone.
Destroy ==
  /\ obj = "live"
  /\ handle_' = close(handle_)
  /\ closed' = TRUE
  /\ obj' = "destroyed"
  /\ last' = Call("dtor", {}, "ok", {}, handle_, Bytes)
  /\ prev' = Summary(last, Shrinks)
  /\ UNCHANGED <<fs, path_, mode_, fs0, dirs_, written, memVars>>

Next == Construct \/ Read \/ Write \/ Close \/ Destroy

Spec == Init /\ [][Next]_vars

\* ------------------------------------------------------------ MemoryStorage
\* One MemoryStorage object, from construction (memory_ empty), under every
\* sequence of at most MaxOps calls.
MemCall(op, arg, ret) == [op |-> op, arg |-> arg, ret |-> ret]

MemInit == Init /\ fs = [n \in Nodes |-> NoNode]

MemWrite ==
  \E data \in Datasets :
    /\ Len(memHist) < MaxOps
    /\ memory_' = MemoryStorage_write(memory_, data)
    /\ memHist' = Append(memHist, MemCall("write", {data}, {}))
    /\ UNCHANGED jsonVars

MemRead ==
  /\ Len(memHist) < MaxOps
  /\ memory_' = memory_
  /\ memHist' = Append(memHist, MemCall("read", {}, MemoryStorage_read(memory_)))
  /\ UNCHANGED jsonVars

MemClose ==
  /\ Len(memHist) < MaxOps
  /\ memory_' = Storage_close(memory_)
  /\ memHist' = Append(memHist, MemCall("close", {}, {}))
  /\ UNCHANGED jsonVars

MemNext == MemWrite \/ MemRead \/ MemClose

MemSpec == MemInit /\ [][MemNext]_vars

\* ------------------------------------------------------------ properties
ReadWriteModes == {<<"r", "+">>, <<"r", "b", "+">>}
ReadOnlyModes == {<<"r">>, <<"r", "b">>}

IsPrefix(s, bytes) == Len(s) <= Len(bytes) /\ SubSeq(bytes, 1, Len(s)) = s

\* C1: round trip. When read() directly follows write(D) made through an open
\* read-write handle, and the document of D is at least as long as the file
\* that write found, read() returns D, whatever calls came before.
C1_RoundTrip ==
  (last.op = "read" /\ prev.op = "write" /\ prev.rw /\ prev.fits)
    => (last.res = "ok" /\ last.val = prev.arg)

\* The round trip over a file that already held a document: a write of a
\* document of the same or a greater length, then a read that returns it.
C1_Witness ==
  /\ last.op = "read" /\ prev.op = "write" /\ prev.rw /\ prev.fits
  /\ mode_ \in ReadWriteModes
  /\ last.val = prev.arg
  /\ \E d \in last.val : Len(Serialize(d)) > 2 /\ Serialize(d) = Bytes
  /\ fs0[path_].kind = "file" /\ Len(fs0[path_].data) > 2

\* C2: MemoryStorage is a single-slot register. After every sequence of
\* calls, memory_ is the argument of the most recent write() (absent when
\* there was none), so read() and close() left it alone, and every read()
\* returned the argument of the most recent write() before it (absent when
\* there was none).
LastWritten(h, n) ==
  LET ws == {i \in 1..n : h[i].op = "write"}
  IN  IF ws = {} THEN {} ELSE h[CHOOSE i \in ws : \A j \in ws : j <= i].arg

C2_Register ==
  /\ memory_ = LastWritten(memHist, Len(memHist))
  /\ \A i \in 1..Len(memHist) :
       memHist[i].op = "read" => memHist[i].ret = LastWritten(memHist, i - 1)

\* A write, a close and then a read that returns what was written.
C2_Witness ==
  /\ Len(memHist) >= 3
  /\ memHist[1].op = "write"
  /\ memHist[2].op = "close"
  /\ memHist[3].op = "read"
  /\ memHist[3].ret = memHist[1].arg

\* C3: non-truncating overwrite. After write(A) and then write(B) through an
\* open read-write handle, with B's document strictly shorter than A's, the
\* file is B's document followed by the bytes of A's document from that length
\* on, and a read() that follows does not return B: it raises ParseError or
\* returns another dataset.
C3_StaleTail ==
  /\ Shrinks =>
       \A b \in last.arg : \A a \in prev.arg :
         /\ IsPrefix(Serialize(b), Bytes)
         /\ Len(Bytes) >= Len(Serialize(a))
         /\ SubSeq(Bytes, Len(Serialize(b)) + 1, Len(Serialize(a)))
              = SubSeq(Serialize(a), Len(Serialize(b)) + 1, Len(Serialize(a)))
  /\ (last.op = "read" /\ prev.shrink) =>
       \/ last.res = "ParseError"
       \/ (last.res = "ok" /\ last.val # prev.arg)

\* A read that raised ParseError right after a shorter write followed a
\* longer one.
C3_Witness ==
  /\ last.op = "read" /\ prev.shrink /\ last.res = "ParseError"
  /\ \E b \in prev.arg : IsPrefix(Serialize(b), Bytes) /\ Len(Bytes) > Len(Serialize(b))

\* C4: on a handle that has only been read since its construction, read() of
\* a file of size zero returns absent, raises nothing and leaves the file
\* empty, however many reads came before.
C4_EmptyReadAbsent ==
  (last.op = "read" /\ ~closed /\ ~written /\ last.pre = <<>>)
    => (last.res = "absent" /\ last.val = {} /\ Bytes = <<>> /\ handle_.open)

\* A second read in a row of a file that construction created empty.
C4_Witness ==
  /\ last.op = "read" /\ prev.op = "read" /\ ~closed /\ ~written
  /\ last.pre = <<>> /\ last.res = "absent"
  /\ fs0[path_].kind = "none"

\* C5: construction with an access mode other than "r", "r+", "rb", "rb+"
\* fails with InvalidArgument, and the filesystem is as it was before and no
\* handle is open, whatever the path and create_dirs.
C5_InvalidMode ==
  (last.op = "ctor" /\ mode_ \notin ValidModes)
    => (last.res = "InvalidArgument" /\ obj = "failed" /\ fs = fs0
        /\ ~handle_.open)

\* Mode "w" with create_dirs on a path whose directory is missing: rejected.
C5_Witness ==
  /\ last.op = "ctor" /\ mode_ = <<"w">> /\ dirs_
  /\ path_ = NestedName /\ fs0[DirName].kind = "none"
  /\ last.res = "InvalidArgument"

\* C6: close() is idempotent. In every state, close() leaves the handle
\* closed, closing once more changes nothing, and a close() or destructor
\* that finds the handle closed changes neither the handle nor the file.
C6_CloseIdempotent ==
  /\ ~close(handle_).open
  /\ close(close(handle_)) = close(handle_)
  /\ (last.op \in {"close", "dtor"} /\ ~last.open)
       => (last.res = "ok" /\ Bytes = last.pre /\ ~handle_.open
           /\ handle_ = close(handle_))

\* close() called right after close(), and the destructor after close().
C6_Witness ==
  /\ last.op \in {"close", "dtor"} /\ prev.op = "close" /\ ~last.open
  /\ ~handle_.open /\ Len(Bytes) > 0

\* C7: constructing JSONStorage(path, create_dirs = true, "r+") on a path
\* where nothing exists succeeds, and afterwards the path's directory exists,
\* the path is an empty regular file and the handle is open.
C7_CreateDirsSucceeds ==
  (last.op = "ctor" /\ mode_ = <<"r", "+">> /\ dirs_ /\ fs0[path_].kind = "none")
    => /\ last.res = "ok"
       /\ DirExists(fs, ParentOf(path_))
       /\ fs[path_] = FileNode(<<>>)
       /\ handle_.open

\* C8: construction never alters the bytes of an existing file. With mode
\* "r+" or "rb+" an absent file is created empty (when its directory exists or
\* create_dirs is set); with mode "r" or "rb" the filesystem is left as it
\* was, and construction on an absent file fails with IOError.
C8_ConstructionFrame ==
  (last.op = "ctor" /\ mode_ \in ValidModes)
    => /\ \A n \in Nodes : fs0[n].kind = "file" => fs[n] = fs0[n]
       /\ (/\ mode_ \in ReadWriteModes
           /\ fs0[path_].kind = "none"
           /\ (dirs_ \/ DirExists(fs0, ParentOf(path_))))
            => fs[path_] = FileNode(<<>>)
       /\ mode_ \in ReadOnlyModes
            => /\ fs = fs0
               /\ fs0[path_].kind = "none" => last.res = "IOError"

\* C9: no silent data loss in write(). Whenever write(D) returns without
\* raising, the file starts with the document of D; whenever it raises, the
\* file is as it was.
C9_NoSilentLoss ==
  /\ (last.op = "write" /\ last.res = "ok")
       => \A d \in last.arg : IsPrefix(Serialize(d), Bytes)
  /\ (last.op = "write" /\ last.res = "IOError") => Bytes = last.pre

\* C10: once close() has run on a handle, the handle holds no open file for
\* the rest of its lifetime.
C10_ClosedStaysClosed == closed => ~handle_.open

====
